---- MODULE Spec2Model ----
(***************************************************************************)
(* Peer session of the BitTorrent client: Tracker::handshake,              *)
(* Tracker::download_all_pieces and Tracker::download_piece of             *)
(* src/src/tracker.rs, run against a peer that may send any message.       *)
(* One step is one blocking socket operation or one arm of the `match      *)
(* self.state` loop of download_piece.                                     *)
(***************************************************************************)
EXTENDS Integers, Sequences, FiniteSets, TLC

----------------------------------------------------------------------------
(* Bounds of the exploration *)

\* largest number of whole pieces a generated torrent length spans
MaxPieces == 2
\* largest number of calls the driver makes on one session
MaxCalls == 3
\* largest number of Piece responses in which the peer deviates from the request
MaxFaults == 1
\* largest length of a generated integer text, byte string or dictionary key
MaxText == 2
\* largest number of whole digests in a generated pieces blob
MaxDigests == 2
\* largest number of entries in a generated peers blob
MaxPeers == 2

----------------------------------------------------------------------------
(* Program constants *)

\* the block size 16384 of download_piece
BlockSize == 16384

\* ids of the MessageId enum (From<MessageId> for u8)
Choke == 0
Unchoke == 1
Interested == 2
NotInterested == 3
Have == 4
Bitfield == 5
Request == 6
Piece == 7
Cancel == 8

States == {"Connected", "Handshake", "WaitingForBitField", "SendInterested",
           "WaitingForUnchoke", "Download", "Finish"}

----------------------------------------------------------------------------
(* Arithmetic helpers *)

Min(a, b) == IF a < b THEN a ELSE b

\* (x as f64 / d).ceil() as usize, exact for the magnitudes explored
CeilF64(x, d) == IF x % d = 0 THEN x \div d ELSE (x \div d) + 1

----------------------------------------------------------------------------
(* Torrents the session is constructed with.  Info::from copies length and *)
(* piece length from the dictionary and cuts the pieces blob into 20-byte  *)
(* digests without relating their number to the two lengths.               *)

PieceLengths == {5, 16384, 20000, 32768}

Remainders(P) == {r \in {0, 1, BlockSize, BlockSize + 1, P} : r <= P}

Lengths(P) == {n * P + r : n \in 0..(MaxPieces - 1), r \in Remainders(P)}

\* number of digests beyond ceil(length / piece_length) in the pieces blob
ExtraPieces == {0, 1}

LocalInfoHash == "ih_local"
InfoHashes == {"ih_local", "ih_other"}

Torrents ==
    UNION {{[length |-> L, piece_length |-> P, num_pieces |-> CeilF64(L, P) + e,
             info_hash |-> LocalInfoHash] : L \in Lengths(P), e \in ExtraPieces} :
           P \in PieceLengths}

----------------------------------------------------------------------------
(* Messages *)

\* a frame read from the socket: its u32 length prefix, the tag byte and, for
\* a Piece, the index and begin fields of the payload; ok tells whether the
\* block bytes are the content of the torrent at (index, begin)
Msg(len, id, index, begin, ok) ==
    [length |-> len, id |-> id, index |-> index, begin |-> begin, ok |-> ok]

NoMsg == Msg(-1, -1, 0, 0, TRUE)
KeepAlive == Msg(0, -1, 0, 0, TRUE)
Simple(id) == Msg(1, id, 0, 0, TRUE)
PieceMsg(index, begin, blen, ok) == Msg(9 + blen, Piece, index, begin, ok)
\* a Piece frame whose payload is shorter than the 8 header bytes
TruncatedPiece == Msg(5, Piece, 0, 0, FALSE)

\* what the peer may send when no Request is outstanding
IdleMessages == {Simple(id) : id \in 0..9} \cup {KeepAlive}

\* a frame written to the socket
Frame(type, index, begin, length, ih) ==
    [type |-> type, index |-> index, begin |-> begin, length |-> length,
     info_hash |-> ih]

\* Message::read_from_socket panics on an empty frame (split_first on an
\* empty buffer) and on a tag outside 0..8 (From<u8> for MessageId)
ReadPanics(m) == m.length = 0 \/ m.id > Cancel

\* Handshake::new: the frame this client sends
HandshakeNew(pstr, ih, peer_id) ==
    [pstr |-> pstr, reserved |-> 0, info_hash |-> ih, peer_id |-> peer_id]

NoHandshake == HandshakeNew("", "", "")

PeerHandshakes == {HandshakeNew("BitTorrent protocol", ih, "peer") : ih \in InfoHashes}

----------------------------------------------------------------------------
(* Bytes and text.  A byte is a number in 0..255, a byte string a sequence *)
(* of bytes, a Rust String the sequence of its UTF-8 bytes.                *)

Lower == <<"a", "b", "c", "d", "e", "f", "g", "h", "i", "j", "k", "l", "m",
           "n", "o", "p", "q", "r", "s", "t", "u", "v", "w", "x", "y", "z">>
Digit == <<"0", "1", "2", "3", "4", "5", "6", "7", "8", "9">>

\* the byte written as the token c: an ASCII character, or xHH for a raw byte
Asc(c) ==
    IF \E k \in 1..26 : Lower[k] = c THEN 96 + (CHOOSE k \in 1..26 : Lower[k] = c)
    ELSE IF \E k \in 1..10 : Digit[k] = c THEN 47 + (CHOOSE k \in 1..10 : Digit[k] = c)
    ELSE CASE c = " " -> 32
           [] c = "B" -> 66
           [] c = "T" -> 84
           [] c = "quote" -> 34
           [] c = "-" -> 45
           [] c = ":" -> 58
           [] c = "[" -> 91
           [] c = "]" -> 93
           [] c = "," -> 44
           [] c = "x00" -> 0
           [] c = "x01" -> 1
           [] c = "x0A" -> 10
           [] c = "x80" -> 128
           [] c = "xA9" -> 169
           [] c = "xC3" -> 195
           [] c = "xFF" -> 255

Bytes(toks) == [k \in 1..Len(toks) |-> Asc(toks[k])]

IsDigit(b) == b >= Asc("0") /\ b <= Asc("9")

RECURSIVE Concat(_)
Concat(seqs) == IF seqs = <<>> THEN <<>> ELSE seqs[1] \o Concat(Tail(seqs))

\* usize / i64 to_string
RECURSIVE NatToString(_)
NatToString(n) ==
    IF n < 10 THEN <<Asc("0") + n>>
    ELSE NatToString(n \div 10) \o <<Asc("0") + (n % 10)>>

IntToString(n) == IF n < 0 THEN <<Asc("-")>> \o NatToString(-n) ELSE NatToString(n)

IsCont(b) == b >= 128 /\ b <= 191

\* std::str::from_utf8(bytes).is_ok(), from byte k on
RECURSIVE Utf8From(_, _)
Utf8From(bs, k) ==
    LET n == Len(bs)
        b == bs[k]
        c1 == k + 1 <= n /\ IsCont(bs[k + 1])
        c2 == k + 2 <= n /\ IsCont(bs[k + 2])
        c3 == k + 3 <= n /\ IsCont(bs[k + 3])
    IN  IF k > n THEN TRUE
        ELSE IF b < 128 THEN Utf8From(bs, k + 1)
        ELSE IF b >= 194 /\ b <= 223 THEN c1 /\ Utf8From(bs, k + 2)
        ELSE IF b = 224 THEN c1 /\ bs[k + 1] >= 160 /\ c2 /\ Utf8From(bs, k + 3)
        ELSE IF b = 237 THEN c1 /\ bs[k + 1] <= 159 /\ c2 /\ Utf8From(bs, k + 3)
        ELSE IF b >= 225 /\ b <= 239 THEN c1 /\ c2 /\ Utf8From(bs, k + 3)
        ELSE IF b = 240 THEN c1 /\ bs[k + 1] >= 144 /\ c2 /\ c3 /\ Utf8From(bs, k + 4)
        ELSE IF b = 244 THEN c1 /\ bs[k + 1] <= 143 /\ c2 /\ c3 /\ Utf8From(bs, k + 4)
        ELSE IF b >= 241 /\ b <= 243 THEN c1 /\ c2 /\ c3 /\ Utf8From(bs, k + 4)
        ELSE FALSE

IsUtf8(bs) == Utf8From(bs, 1)

\* Ord of Vec<u8> and of String: lexicographic on the bytes
RECURSIVE LexLess(_, _)
LexLess(a, b) ==
    IF a = <<>> THEN b # <<>>
    ELSE IF b = <<>> THEN FALSE
    ELSE IF a[1] # b[1] THEN a[1] < b[1]
    ELSE LexLess(Tail(a), Tail(b))

----------------------------------------------------------------------------
(* bencode.rs: Value, Display, Bencode::decode, Bencode::encode *)

VString(bs) == [t |-> "String", v |-> bs]
VBlob(bs) == [t |-> "Blob", v |-> bs]
VNumber(n) == [t |-> "Number", v |-> n]
VList(vs) == [t |-> "List", v |-> vs]
VDictionary(map) == [t |-> "Dictionary", v |-> map]
\* a panic of the thread, in place of a Value
Panic(why) == [t |-> "Panic", v |-> why]

EmptyMap == [k \in {} |-> 0]
\* HashMap::insert
Insert(map, key, value) ==
    [k \in DOMAIN map \cup {key} |-> IF k = key THEN value ELSE map[k]]

\* Display of a String ("\"{}\"") and of a Blob ("{:?}" of the Vec<u8>)
RECURSIVE DebugBytes(_)
DebugBytes(bs) ==
    IF bs = <<>> THEN <<>>
    ELSE IF Len(bs) = 1 THEN NatToString(bs[1])
    ELSE NatToString(bs[1]) \o Bytes(<<",", " ">>) \o DebugBytes(Tail(bs))

DisplayValue(value) ==
    IF value.t = "String" THEN <<Asc("quote")>> \o value.v \o <<Asc("quote")>>
    ELSE Bytes(<<"[">>) \o DebugBytes(value.v) \o Bytes(<<"]">>)

\* peek(): the byte at position, -1 for None
Peek(bs, pos) == IF pos < Len(bs) THEN bs[pos + 1] ELSE -1

\* decode_integer_number: the position after the run of digits and '-'
RECURSIVE NumberEnd(_, _)
NumberEnd(bs, pos) ==
    IF IsDigit(Peek(bs, pos)) \/ Peek(bs, pos) = Asc("-")
    THEN NumberEnd(bs, pos + 1) ELSE pos

RECURSIVE DigitsValue(_)
DigitsValue(ds) ==
    IF ds = <<>> THEN 0
    ELSE 10 * DigitsValue(SubSeq(ds, 1, Len(ds) - 1)) + (ds[Len(ds)] - Asc("0"))

AllDigits(ds) == ds # <<>> /\ \A k \in 1..Len(ds) : IsDigit(ds[k])

\* number_string.parse::<i64>(): a sign and at least one digit
ParseI64(text) ==
    IF AllDigits(text) THEN [ok |-> TRUE, n |-> DigitsValue(text)]
    ELSE IF text # <<>> /\ text[1] = Asc("-") /\ AllDigits(Tail(text))
         THEN [ok |-> TRUE, n |-> 0 - DigitsValue(Tail(text))]
         ELSE [ok |-> FALSE, n |-> 0]

\* decode_integer_number
DecodeIntegerNumber(bs, pos) ==
    LET q == NumberEnd(bs, pos)
        parsed == ParseI64(SubSeq(bs, pos + 1, q))
    IN  [ok |-> parsed.ok, n |-> parsed.n, pos |-> q]

Failed(why) == [v |-> Panic(why), pos |-> -1]
IsPanic(r) == r.v.t = "Panic"

\* decode_string
DecodeString(bs, pos) ==
    LET num == DecodeIntegerNumber(bs, pos)
        start == num.pos + 1
    IN  IF ~num.ok THEN Failed("Invalid number")
        ELSE IF Peek(bs, num.pos) # Asc(":") THEN Failed("Expected ':' after string length")
        ELSE IF num.n < 0 \/ start + num.n > Len(bs) THEN Failed("slice index out of range")
        ELSE LET slice == SubSeq(bs, start + 1, start + num.n)
             IN  [v |-> IF IsUtf8(slice) THEN VString(slice) ELSE VBlob(slice),
                  pos |-> start + num.n]

\* decode_integer
DecodeInteger(bs, pos) ==
    LET num == DecodeIntegerNumber(bs, pos + 1)
    IN  IF ~num.ok THEN Failed("Invalid number")
        ELSE IF Peek(bs, num.pos) # Asc("e") THEN Failed("Expected 'e' at end of integer")
        ELSE [v |-> VNumber(num.n), pos |-> num.pos + 1]

\* the dictionary key: decode_string().to_string() stripped of one '"' at
\* each end, each strip unwrapped
DictionaryKey(value) ==
    LET shown == DisplayValue(value)
    IN  IF shown[1] # Asc("quote") \/ Len(shown) < 2 \/ shown[Len(shown)] # Asc("quote")
        THEN Panic("unwrap on None")
        ELSE VString(SubSeq(shown, 2, Len(shown) - 1))

RECURSIVE DecodeAt(_, _)
RECURSIVE DecodeListItems(_, _, _)
RECURSIVE DecodeDictionaryEntries(_, _, _)

\* decode_list after the 'l'
DecodeListItems(bs, pos, values) ==
    IF Peek(bs, pos) = Asc("e") THEN [v |-> VList(values), pos |-> pos + 1]
    ELSE LET item == DecodeAt(bs, pos)
         IN  IF IsPanic(item) THEN item
             ELSE DecodeListItems(bs, item.pos, Append(values, item.v))

\* decode_dictionary after the 'd'
DecodeDictionaryEntries(bs, pos, map) ==
    IF Peek(bs, pos) = Asc("e") THEN [v |-> VDictionary(map), pos |-> pos + 1]
    ELSE LET keystr == DecodeString(bs, pos)
         IN  IF IsPanic(keystr) THEN keystr
             ELSE LET key == DictionaryKey(keystr.v)
                  IN  IF key.t = "Panic" THEN Failed(key.v)
                      ELSE LET value == DecodeAt(bs, keystr.pos)
                           IN  IF IsPanic(value) THEN value
                               ELSE DecodeDictionaryEntries(bs, value.pos,
                                        Insert(map, key.v, value.v))

\* Bencode::decode at a position
DecodeAt(bs, pos) ==
    LET c == Peek(bs, pos)
    IN  IF c = Asc("d") THEN DecodeDictionaryEntries(bs, pos + 1, EmptyMap)
        ELSE IF c = Asc("l") THEN DecodeListItems(bs, pos + 1, <<>>)
        ELSE IF c = Asc("i") THEN DecodeInteger(bs, pos)
        ELSE IF IsDigit(c) THEN DecodeString(bs, pos)
        ELSE IF c = -1 THEN Failed("Unexpected end of input")
        ELSE Failed("Unexpected character")

\* Bencode::new(bytes).decode()
Decode(bs) == DecodeAt(bs, 0).v

\* sorted_keys.sort()
RECURSIVE SortKeys(_)
SortKeys(keys) ==
    IF keys = {} THEN <<>>
    ELSE LET least == CHOOSE k \in keys : \A o \in keys \ {k} : LexLess(k, o)
         IN  <<least>> \o SortKeys(keys \ {least})

RECURSIVE Encode(_)
RECURSIVE EncodeAll(_)
RECURSIVE EncodeEntries(_, _)

EncodeAll(values) ==
    IF values = <<>> THEN <<>> ELSE Encode(values[1]) \o EncodeAll(Tail(values))

EncodeEntries(map, keys) ==
    IF keys = <<>> THEN <<>>
    ELSE Encode(VString(keys[1])) \o Encode(map[keys[1]])
            \o EncodeEntries(map, Tail(keys))

\* Bencode::encode
Encode(value) ==
    CASE value.t \in {"String", "Blob"} ->
            NatToString(Len(value.v)) \o <<Asc(":")>> \o value.v
      [] value.t = "Number" -> <<Asc("i")>> \o IntToString(value.v) \o <<Asc("e")>>
      [] value.t = "List" -> <<Asc("l")>> \o EncodeAll(value.v) \o <<Asc("e")>>
      [] value.t = "Dictionary" ->
            <<Asc("d")>> \o EncodeEntries(value.v, SortKeys(DOMAIN value.v))
               \o <<Asc("e")>>

----------------------------------------------------------------------------
(* torrent.rs: Torrent::open, Info, Torrent::info_hash, Torrent::get_peers *)

\* the length of a SHA-1 digest in info.pieces
DigestLen == 20
\* the length of an entry of the compact peers blob
PeerLen == 6

\* chunks_exact(n): the whole chunks, a shorter rest is dropped
ChunksExact(bs, n) ==
    [j \in 1..(Len(bs) \div n) |-> SubSeq(bs, (j - 1) * n + 1, j * n)]

KeyAnnounce == Bytes(<<"a", "n", "n", "o", "u", "n", "c", "e">>)
KeyInfo == Bytes(<<"i", "n", "f", "o">>)
KeyLength == Bytes(<<"l", "e", "n", "g", "t", "h">>)
KeyName == Bytes(<<"n", "a", "m", "e">>)
KeyPieceLength == Bytes(<<"p", "i", "e", "c", "e", " ", "l", "e", "n", "g", "t", "h">>)
KeyPieces == Bytes(<<"p", "i", "e", "c", "e", "s">>)
KeyPeers == Bytes(<<"p", "e", "e", "r", "s">>)

\* map.get(key) matched against one variant of Value
Has(map, key, variant) == key \in DOMAIN map /\ map[key].t = variant

\* From<&HashMap<String, Value>> for Info; lengths are `as usize` casts of
\* numbers that are not negative here
InfoFrom(map) ==
    IF ~Has(map, KeyLength, "Number") THEN Panic("no length number")
    ELSE IF ~Has(map, KeyName, "String") THEN Panic("no name string")
    ELSE IF ~Has(map, KeyPieceLength, "Number") THEN Panic("no piece length number")
    ELSE IF ~Has(map, KeyPieces, "Blob") THEN Panic("no pieces blob")
    ELSE [t |-> "Info",
          v |-> [length |-> map[KeyLength].v,
                 name |-> map[KeyName].v,
                 piece_length |-> map[KeyPieceLength].v,
                 pieces |-> ChunksExact(map[KeyPieces].v, DigestLen)]]

\* Torrent::open, the end: the Info projected from the info dictionary
OpenInfo(announce, info) ==
    IF info.t = "Panic" THEN info
    ELSE [t |-> "Torrent", v |-> [announce |-> announce, info |-> info.v]]

\* Torrent::open, after the decoding of the file
OpenValue(decoded) ==
    IF decoded.t = "Panic" THEN decoded
    ELSE IF decoded.t # "Dictionary" THEN Panic("not a dictionary")
    ELSE IF ~Has(decoded.v, KeyAnnounce, "String") THEN Panic("no announce string")
    ELSE IF ~Has(decoded.v, KeyInfo, "Dictionary") THEN Panic("no info dictionary")
    ELSE OpenInfo(decoded.v[KeyAnnounce].v, InfoFrom(decoded.v[KeyInfo].v))

\* Torrent::open on the bytes of the file
TorrentOpen(bs) == OpenValue(Decode(bs))

\* From<&Info> for HashMap<String, Value>
InfoToMap(info) ==
    Insert(Insert(Insert(Insert(EmptyMap,
        KeyLength, VNumber(info.length)),
        KeyName, VString(info.name)),
        KeyPieceLength, VNumber(info.piece_length)),
        KeyPieces, VBlob(Concat(info.pieces)))

\* Torrent::info_hash: the bytes given to the SHA-1 hasher
InfoHashInput(info) == Encode(VDictionary(InfoToMap(info)))

\* the value the closure of get_peers returns for a 6-byte chunk: the
\* Ipv4Addr; the port is computed and printed only
PeerOfChunk(chunk) == [ip |-> <<chunk[1], chunk[2], chunk[3], chunk[4]>>]

\* get_peers: the chunks of the peers blob mapped by the closure, collected
PeersOfChunks(chunks) == [j \in 1..Len(chunks) |-> PeerOfChunk(chunks[j])]

\* get_peers, after the decoding of the body of the tracker response
PeersOfValue(decoded) ==
    IF decoded.t = "Panic" THEN decoded
    ELSE IF decoded.t # "Dictionary" THEN Panic("not a dictionary")
    ELSE IF ~Has(decoded.v, KeyPeers, "Blob") THEN Panic("no peers blob")
    ELSE [t |-> "Peers",
          v |-> PeersOfChunks(ChunksExact(decoded.v[KeyPeers].v, PeerLen))]

\* Torrent::get_peers from the bytes of the tracker response on
GetPeersOf(bs) == PeersOfValue(Decode(bs))

----------------------------------------------------------------------------
(* Handshake, byte by byte *)

HandshakeLen == 68

\* a Handshake value with its four fields as byte strings
HandshakeValue(pstr, reserved, info_hash, peer_id) ==
    [pstr |-> pstr, reserved |-> reserved, info_hash |-> info_hash,
     peer_id |-> peer_id]

\* as_bytes without the length byte in front
AsBytesNoLength(h) == h.pstr \o h.reserved \o h.info_hash \o h.peer_id

\* Handshake::as_bytes; the length of pstr is cast to u8
AsBytes(h) ==
    <<Len(h.pstr) % 256>> \o h.pstr \o h.reserved \o h.info_hash \o h.peer_id

\* Handshake::from_bytes, the fields cut at pstr_len; bs[m..n] of the source
\* is SubSeq(bs, m + 1, n)
FromBytesAt(bytes, pstr_len) ==
    IF pstr_len + 1 > Len(bytes) THEN Panic("range end out of range")
    ELSE IF ~IsUtf8(SubSeq(bytes, 2, pstr_len + 1)) THEN Panic("Failed to parse pstr")
    ELSE IF pstr_len + 49 > Len(bytes) THEN Panic("range end out of range")
    ELSE [t |-> "Handshake",
          v |-> HandshakeValue(SubSeq(bytes, 2, pstr_len + 1),
                               SubSeq(bytes, pstr_len + 2, pstr_len + 9),
                               SubSeq(bytes, pstr_len + 10, pstr_len + 29),
                               SubSeq(bytes, pstr_len + 30, pstr_len + 49))]

\* Handshake::from_bytes on the 68 bytes read from the socket
FromBytes(bytes) == FromBytesAt(bytes, bytes[1])

----------------------------------------------------------------------------
(* The byte strings given to the codec, the metainfo projection and the    *)
(* tracker client.  Each input records how it was put together:            *)
(* kind, bytes, canonical (canonical bencode, for a metainfo: the schema   *)
(* of the info dictionary is met), part (the integer text, the raw string, *)
(* the dictionary in sorted order, the bytes of the info dictionary, the   *)
(* peers blob), keys (the keys of a dictionary in input order) and aux     *)
(* (for a metainfo: length, piece length, length of pieces, extra keys).   *)

SeqsUpTo(S, n) == UNION {[1..k -> S] : k \in 0..n}

Input(kind, bytes, canonical, part, keys, aux) ==
    [kind |-> kind, bytes |-> bytes, canonical |-> canonical, part |-> part,
     keys |-> keys, aux |-> aux]

NoInput == Input("none", <<>>, FALSE, <<>>, <<>>, <<>>)

\* <decimal-length>:<raw-bytes>
RawString(bs) == NatToString(Len(bs)) \o <<Asc(":")>> \o bs

IntAlphabet == {Asc("-"), Asc("0"), Asc("1"), Asc("3")}
RawAlphabet == {Asc("a"), Asc("quote"), Asc("xA9"), Asc("xC3"), Asc("xFF")}

IntTexts == SeqsUpTo(IntAlphabet, MaxText) \ {<<>>}
ByteStrings == SeqsUpTo(RawAlphabet, MaxText)

\* 0, or an optional '-' and digits that do not start with 0
CanonicalInt(text) ==
    LET digits == IF text[1] = Asc("-") THEN Tail(text) ELSE text
    IN  /\ AllDigits(digits)
        /\ digits[1] = Asc("0") => text = <<Asc("0")>>

IntInput(text) ==
    Input("int", <<Asc("i")>> \o text \o <<Asc("e")>>, CanonicalInt(text),
          text, <<>>, <<>>)

StringInput(bs) == Input("string", RawString(bs), TRUE, bs, <<>>, <<>>)

\* l <string> i7e le e
ListInput(bs) ==
    Input("list",
          <<Asc("l")>> \o RawString(bs) \o Bytes(<<"i", "7", "e", "l", "e", "e">>),
          TRUE, bs, <<>>, <<>>)

\* d <k1> i1e <k2> i2e e and the same entries with the smaller key first
DictBytes(k1, v1, k2, v2) ==
    <<Asc("d")>> \o RawString(k1) \o <<Asc("i"), v1, Asc("e")>>
       \o RawString(k2) \o <<Asc("i"), v2, Asc("e")>> \o <<Asc("e")>>

DictInput(k1, k2) ==
    Input("dict", DictBytes(k1, Asc("1"), k2, Asc("2")), LexLess(k1, k2),
          IF LexLess(k2, k1) THEN DictBytes(k2, Asc("2"), k1, Asc("1"))
          ELSE DictBytes(k1, Asc("1"), k2, Asc("2")),
          <<k1, k2>>, <<>>)

Repeat(b, n) == [k \in 1..n |-> b]

\* a pieces blob of k digests and rest more bytes, all ASCII or all not UTF-8
PiecesBlob(k, rest, ascii) ==
    LET first == IF ascii THEN Asc("a") ELSE Asc("xFF")
    IN  Concat([j \in 1..k |-> <<first>> \o Repeat(Asc("a"), DigestLen - 1)])
           \o Repeat(first, rest)

PiecesBlobs ==
    {PiecesBlob(k, rest, ascii) : k \in 0..MaxDigests, rest \in {0, 1},
                                  ascii \in BOOLEAN}

MetaLengths == {0, 1, 20}
MetaPieceLengths == {0, 16}

InfoBytes(length, plen, blob, extra) ==
    <<Asc("d")>>
       \o RawString(KeyLength) \o <<Asc("i")>> \o NatToString(length) \o <<Asc("e")>>
       \o RawString(KeyName) \o RawString(Bytes(<<"n">>))
       \o RawString(KeyPieceLength) \o <<Asc("i")>> \o NatToString(plen) \o <<Asc("e")>>
       \o RawString(KeyPieces) \o RawString(blob)
       \o (IF extra = 1 THEN RawString(Bytes(<<"x">>)) \o Bytes(<<"i", "1", "e">>)
           ELSE <<>>)
       \o <<Asc("e")>>

MetaInput(length, plen, blob, extra) ==
    Input("metainfo",
          <<Asc("d")>> \o RawString(KeyAnnounce) \o RawString(Bytes(<<"u">>))
             \o RawString(KeyInfo) \o InfoBytes(length, plen, blob, extra)
             \o <<Asc("e")>>,
          length > 0 /\ plen > 0 /\ Len(blob) > 0 /\ Len(blob) % DigestLen = 0,
          InfoBytes(length, plen, blob, extra), <<>>,
          <<length, plen, Len(blob), extra>>)

PeerEntries ==
    {Bytes(<<"xFF", "x01", "x00", "x0A", "x01", "x00">>),
     Bytes(<<"x0A", "x00", "x00", "x01", "x00", "a">>),
     Bytes(<<"xC3", "xA9", "x0A", "x01", "x80", "x00">>)}

PeersBlobs == {Concat(es) : es \in SeqsUpTo(PeerEntries, MaxPeers)}

TrackerInput(blob) ==
    Input("tracker",
          <<Asc("d")>> \o RawString(KeyPeers) \o RawString(blob) \o <<Asc("e")>>,
          TRUE, blob, <<>>, <<>>)

Protocol ==
    Bytes(<<"B", "i", "t", "T", "o", "r", "r", "e", "n", "t", " ",
            "p", "r", "o", "t", "o", "c", "o", "l">>)

Pstrs == {Protocol, Bytes(<<"b", "t">>)}

Reserveds ==
    {Repeat(Asc("x00"), 8),
     <<Asc("x80")>> \o Repeat(Asc("x00"), 6) \o <<Asc("x01")>>,
     Repeat(Asc("xFF"), 8)}

\* 20-byte strings for info_hash and peer_id
Ids ==
    {Repeat(Asc("x00"), 20),
     PiecesBlob(1, 0, TRUE),
     PiecesBlob(1, 0, FALSE),
     Repeat(Asc("x01"), 19) \o <<Asc("xC3")>>}

\* a Handshake value: its fields are the keys, canonical when pstr is
\* 'BitTorrent protocol'
HandshakeInput(pstr, reserved, info_hash, peer_id) ==
    Input("handshake", <<>>, pstr = Protocol, <<>>,
          <<pstr, reserved, info_hash, peer_id>>, <<>>)

Inputs ==
    {HandshakeInput(pstr, reserved, info_hash, peer_id) :
        pstr \in Pstrs, reserved \in Reserveds, info_hash \in Ids, peer_id \in Ids}
    \cup {IntInput(text) : text \in IntTexts}
    \cup {StringInput(bs) : bs \in ByteStrings}
    \cup {ListInput(bs) : bs \in ByteStrings}
    \cup {DictInput(k1, k2) : k1 \in ByteStrings, k2 \in ByteStrings}
    \cup {MetaInput(length, plen, blob, extra) :
             length \in MetaLengths, plen \in MetaPieceLengths,
             blob \in PiecesBlobs, extra \in {0, 1}}
    \cup {TrackerInput(blob) : blob \in PeersBlobs}

NoValue == [t |-> "None", v |-> ""]

----------------------------------------------------------------------------
(* State *)

VARIABLES
    torrent,            \* Tracker.torrent: the metainfo, fixed at construction
    state,              \* Tracker.state
    pc,                 \* position of the thread: "idle" (between calls),
                        \* "hs_read", "for", "loop", "while", "await", "panicked"
    call,               \* the public method called last
    calls,              \* number of calls made on the session
    piece_index,        \* download_piece: piece_index
    piece_length,       \* download_piece: piece_length of the Download arm
    blocks_to_download, \* download_piece: blocks_to_download
    block_index,        \* download_piece: block_index
    sent,               \* frames written to the socket, in order
    file,               \* chunks written to the `file` argument of the current
                        \* call, in order; each call is given an empty file
    peer_handshake,     \* the Handshake returned by handshake()
    last_msg,           \* the message read by the last step, NoMsg if it read none
    bitfield_received,  \* a Bitfield has been read from the socket
    unchoked,           \* an Unchoke has been read after Interested was written
    outstanding,        \* Requests written and not yet followed by a Piece
    piece_reqs,         \* Requests written by the current download_piece call
    completed,          \* download_piece calls that returned: <<call, piece>>
    faults,             \* deviating Piece responses sent by the peer so far
    input,              \* the bytes handed to the codec or to Torrent
    cstage,             \* how far the input has been processed
    decoded,            \* the Value of Bencode::decode, or the panic
    encoded,            \* the bytes of Bencode::encode of the decoded Value
    opened,             \* the Torrent of Torrent::open, or the panic
    hashed,             \* the bytes Torrent::info_hash gives to SHA-1
    peers               \* the Vec of Torrent::get_peers, or the panic

locals == <<piece_length, blocks_to_download, block_index>>
observed == <<bitfield_received, unchoked, outstanding>>
session == <<torrent, state, pc, call, calls, piece_index, piece_length,
             blocks_to_download, block_index, sent, file, peer_handshake, last_msg,
             bitfield_received, unchoked, outstanding, piece_reqs, completed, faults>>
codec == <<input, cstage, decoded, encoded, opened, hashed, peers>>
vars == <<session, codec>>

\* no input is being processed
CodecIdle ==
    /\ input = NoInput
    /\ cstage = "none"
    /\ decoded = NoValue
    /\ encoded = <<>>
    /\ opened = NoValue
    /\ hashed = <<>>
    /\ peers = NoValue

\* Tracker::new: the fields of the session and the bookkeeping at the start
Created ==
    /\ state = "Connected"
    /\ pc = "idle"
    /\ call = "none"
    /\ calls = 0
    /\ piece_index = 0
    /\ piece_length = 0
    /\ blocks_to_download = 0
    /\ block_index = 0
    /\ sent = <<>>
    /\ file = <<>>
    /\ peer_handshake = NoHandshake
    /\ last_msg = NoMsg
    /\ bitfield_received = FALSE
    /\ unchoked = FALSE
    /\ outstanding = 0
    /\ piece_reqs = <<>>
    /\ completed = <<>>
    /\ faults = 0

\* a session on one of the torrents, no input being processed
Init ==
    /\ torrent \in Torrents
    /\ Created
    /\ CodecIdle

InterestedSent == \E k \in 1..Len(sent) : sent[k].type = "Interested"

\* bookkeeping of a message read from the socket
Observe(m) ==
    /\ last_msg' = m
    /\ bitfield_received' = (bitfield_received \/ m.id = Bitfield)
    /\ unchoked' = (unchoked \/ (m.id = Unchoke /\ InterestedSent))
    /\ outstanding' = IF m.id = Piece /\ outstanding > 0
                      THEN outstanding - 1 ELSE outstanding

----------------------------------------------------------------------------
(* download_piece, the pure parts *)

\* the WaitingForBitField arm leaving on any message
OnWaitingForBitFieldAnyMessage(m) == "SendInterested"

\* the WaitingForBitField arm
OnWaitingForBitField(m) ==
    IF m.id = Bitfield THEN "SendInterested" ELSE "WaitingForBitField"

\* the WaitingForUnchoke arm
OnWaitingForUnchoke(m) ==
    IF m.id = Unchoke THEN "Download" ELSE "WaitingForUnchoke"

\* the piece length without the usize::min against the remaining length
PieceLengthNoMin(t, i) == t.piece_length

\* usize::min(length - piece_index * piece_length, piece_length); when the
\* subtraction wraps (release build) the difference is 2^64 - d, above every
\* piece length
PieceLength(t, i) ==
    LET d == t.length - i * t.piece_length
    IN  IF d < 0 THEN t.piece_length ELSE Min(d, t.piece_length)

\* the block count rounded down instead of up
BlocksToDownloadFloor(pl) == pl \div BlockSize

BlocksToDownload(pl) == CeilF64(pl, BlockSize)

\* every block requested as a whole block
BlockLengthWhole(pl, k) == BlockSize

\* u32::min(piece_length as u32 - (block_index * 16384) as u32, 16384)
BlockLength(pl, k) == Min(pl - k * BlockSize, BlockSize)

\* the payload of the Request for block k of piece i
RequestFrame(i, k, pl) == Frame("Request", i, k * BlockSize, BlockLength(pl, k), "")

\* the thread going on with the while loop without reading a response
AfterRequestNoRead == "while"

\* where the thread is after writing a Request: in read_from_socket
AfterRequest == "await"

\* assert!(response_message.id == MessageId::Piece)
ResponseAccepted(m) == m.id = Piece

\* response_message.payload[8..]: the payload is length - 1 bytes long
BlockBytes(m) == m.length - 9

\* what the peer may answer to the Request r
Responses(r) ==
    {Simple(id) : id \in (0..9) \ {Piece}}
    \cup {KeepAlive, TruncatedPiece, PieceMsg(r.index, r.begin, r.length, TRUE)}
    \cup (IF faults < MaxFaults
          THEN {PieceMsg(r.index + 1, r.begin, r.length, TRUE),
                PieceMsg(r.index, r.begin + 1, r.length, TRUE),
                PieceMsg(r.index, r.begin, r.length - 1, TRUE),
                PieceMsg(r.index, r.begin, r.length, FALSE)}
          ELSE {})

Deviates(m, r) == m.id = Piece /\ m # PieceMsg(r.index, r.begin, r.length, TRUE)

----------------------------------------------------------------------------
(* Actions *)

\* handshake(): the state check and the write of the handshake frame
CallHandshake ==
    /\ pc = "idle" /\ calls < MaxCalls
    /\ calls' = calls + 1
    /\ call' = "handshake"
    /\ IF state # "Connected"
       THEN pc' = "panicked" /\ sent' = sent
       ELSE /\ pc' = "hs_read"
            /\ sent' = Append(sent, Frame("Handshake", 0, 0, 0,
                   HandshakeNew("BitTorrent protocol", torrent.info_hash, "zero").info_hash))
    /\ last_msg' = NoMsg
    /\ UNCHANGED <<codec, torrent, state, piece_index, locals, file, peer_handshake,
                   observed, piece_reqs, completed, faults>>

\* handshake(): read_exact of the 68 bytes, state = Handshake, from_bytes
HandshakeRecv ==
    /\ pc = "hs_read"
    /\ \E h \in PeerHandshakes : peer_handshake' = h
    /\ state' = "Handshake"
    /\ pc' = "idle"
    /\ last_msg' = NoMsg
    /\ UNCHANGED <<codec, torrent, call, calls, piece_index, locals, sent, file,
                   observed, piece_reqs, completed, faults>>

\* entry of download_piece(i): the index into info.pieces and the
\* Handshake -> WaitingForBitField step
EnterDownloadPiece(i) ==
    IF i >= torrent.num_pieces
    THEN pc' = "panicked" /\ UNCHANGED <<state, piece_reqs>>
    ELSE /\ state' = IF state = "Handshake" THEN "WaitingForBitField" ELSE state
         /\ pc' = "loop"
         /\ piece_reqs' = <<>>

\* download_all_pieces(): the state check
CallDownloadAllPieces ==
    /\ pc = "idle" /\ calls < MaxCalls
    /\ calls' = calls + 1
    /\ call' = "download_all_pieces"
    /\ IF state # "Handshake"
       THEN pc' = "panicked" /\ UNCHANGED piece_index
       ELSE pc' = "for" /\ piece_index' = 0
    /\ file' = <<>>
    /\ last_msg' = NoMsg
    /\ UNCHANGED <<codec, torrent, state, locals, sent, peer_handshake,
                   observed, piece_reqs, completed, faults>>

\* download_all_pieces(): head of the for loop over 0..pieces.len()
ForNext ==
    /\ pc = "for"
    /\ IF piece_index < torrent.num_pieces
       THEN EnterDownloadPiece(piece_index)
       ELSE pc' = "idle" /\ UNCHANGED <<state, piece_reqs>>
    /\ last_msg' = NoMsg
    /\ UNCHANGED <<codec, torrent, call, calls, piece_index, locals, sent, file,
                   peer_handshake, observed, completed, faults>>

\* the piece_index arguments the driver passes: the first piece, the last
\* piece and one beyond the end of info.pieces
PieceArgs == {i \in {0, torrent.num_pieces - 1, torrent.num_pieces} : i >= 0}

\* download_piece(i) called by the driver itself
CallDownloadPiece(i) ==
    /\ pc = "idle" /\ calls < MaxCalls
    /\ calls' = calls + 1
    /\ call' = "download_piece"
    /\ piece_index' = i
    /\ EnterDownloadPiece(i)
    /\ file' = <<>>
    /\ last_msg' = NoMsg
    /\ UNCHANGED <<codec, torrent, locals, sent, peer_handshake, observed,
                   completed, faults>>

\* arm State::WaitingForBitField
RecvWaitingForBitField(m) ==
    /\ pc = "loop" /\ state = "WaitingForBitField"
    /\ Observe(m)
    /\ IF ReadPanics(m)
       THEN pc' = "panicked" /\ state' = state
       ELSE pc' = pc /\ state' = OnWaitingForBitField(m)
    /\ UNCHANGED <<codec, torrent, call, calls, piece_index, locals, sent, file,
                   peer_handshake, piece_reqs, completed, faults>>

\* arm State::SendInterested
SendInterested ==
    /\ pc = "loop" /\ state = "SendInterested"
    /\ sent' = Append(sent, Frame("Interested", 0, 0, 0, ""))
    /\ state' = "WaitingForUnchoke"
    /\ last_msg' = NoMsg
    /\ UNCHANGED <<codec, torrent, pc, call, calls, piece_index, locals, file,
                   peer_handshake, observed, piece_reqs, completed, faults>>

\* arm State::WaitingForUnchoke
RecvWaitingForUnchoke(m) ==
    /\ pc = "loop" /\ state = "WaitingForUnchoke"
    /\ Observe(m)
    /\ IF ReadPanics(m)
       THEN pc' = "panicked" /\ state' = state
       ELSE pc' = pc /\ state' = OnWaitingForUnchoke(m)
    /\ UNCHANGED <<codec, torrent, call, calls, piece_index, locals, sent, file,
                   peer_handshake, piece_reqs, completed, faults>>

\* arm State::Download up to the while loop
DownloadStart ==
    /\ pc = "loop" /\ state = "Download"
    /\ piece_length' = PieceLength(torrent, piece_index)
    /\ blocks_to_download' = BlocksToDownload(PieceLength(torrent, piece_index))
    /\ block_index' = 0
    /\ pc' = "while"
    /\ last_msg' = NoMsg
    /\ UNCHANGED <<codec, torrent, state, call, calls, piece_index, sent, file,
                   peer_handshake, observed, piece_reqs, completed, faults>>

\* arm State::Download: length - piece_index * piece_length overflows usize,
\* which panics in a build with overflow checks
DownloadOverflow ==
    /\ pc = "loop" /\ state = "Download"
    /\ torrent.length - piece_index * torrent.piece_length < 0
    /\ pc' = "panicked"
    /\ last_msg' = NoMsg
    /\ UNCHANGED <<codec, torrent, state, call, calls, piece_index, locals, sent, file,
                   peer_handshake, observed, piece_reqs, completed, faults>>

\* the while loop: build the Request and write it
SendRequest ==
    /\ pc = "while" /\ block_index < blocks_to_download
    /\ sent' = Append(sent, RequestFrame(piece_index, block_index, piece_length))
    /\ piece_reqs' = Append(piece_reqs,
                            RequestFrame(piece_index, block_index, piece_length))
    /\ outstanding' = outstanding + 1
    /\ pc' = AfterRequest
    /\ last_msg' = NoMsg
    /\ UNCHANGED <<codec, torrent, state, call, calls, piece_index, locals, file,
                   peer_handshake, bitfield_received, unchoked, completed, faults>>

\* the while loop: read the response, check it, write the block to the file
RecvResponse(m) ==
    /\ pc = "await"
    /\ Observe(m)
    /\ faults' = IF Deviates(m, sent[Len(sent)]) THEN faults + 1 ELSE faults
    /\ IF ReadPanics(m) \/ ~ResponseAccepted(m) \/ BlockBytes(m) < 0
       THEN pc' = "panicked" /\ UNCHANGED <<file, block_index>>
       ELSE /\ file' = Append(file,
                   [call |-> calls, piece |-> piece_index,
                    req_begin |-> sent[Len(sent)].begin,
                    index |-> m.index, begin |-> m.begin,
                    len |-> BlockBytes(m), ok |-> m.ok])
            /\ block_index' = block_index + 1
            /\ pc' = "while"
    /\ UNCHANGED <<codec, torrent, state, call, calls, piece_index, piece_length,
                   blocks_to_download, sent, peer_handshake, piece_reqs, completed>>

AwaitResponse ==
    /\ pc = "await"
    /\ \E m \in Responses(sent[Len(sent)]) : RecvResponse(m)

\* the while loop ends: state = Finish
DownloadEnd ==
    /\ pc = "while" /\ block_index >= blocks_to_download
    /\ state' = "Finish"
    /\ pc' = "loop"
    /\ last_msg' = NoMsg
    /\ UNCHANGED <<codec, torrent, call, calls, piece_index, locals, sent, file,
                   peer_handshake, observed, piece_reqs, completed, faults>>

\* the Finish arm going back to the state of a fresh session
AfterFinishConnected == "Connected"

\* the Finish arm putting the session back before the Bitfield
AfterFinishHandshake == "Handshake"

\* the state the Finish arm leaves the session in
AfterFinish == "Download"

\* arm State::Finish: state = Download, break, return to the caller
Finish ==
    /\ pc = "loop" /\ state = "Finish"
    /\ state' = AfterFinish
    /\ completed' = Append(completed, <<calls, piece_index>>)
    /\ IF call = "download_all_pieces"
       THEN pc' = "for" /\ piece_index' = piece_index + 1
       ELSE pc' = "idle" /\ UNCHANGED piece_index
    /\ last_msg' = NoMsg
    /\ UNCHANGED <<codec, torrent, call, calls, locals, sent, file, peer_handshake,
                   observed, piece_reqs, faults>>

\* arm `_ => {}`: Connected and Handshake leave everything as it is
Spin ==
    /\ pc = "loop" /\ state \in {"Connected", "Handshake"}
    /\ UNCHANGED vars

Next ==
    \/ CallHandshake
    \/ HandshakeRecv
    \/ CallDownloadAllPieces
    \/ ForNext
    \/ \E i \in PieceArgs : CallDownloadPiece(i)
    \/ \E m \in IdleMessages : RecvWaitingForBitField(m)
    \/ SendInterested
    \/ \E m \in IdleMessages : RecvWaitingForUnchoke(m)
    \/ DownloadStart
    \/ DownloadOverflow
    \/ SendRequest
    \/ AwaitResponse
    \/ DownloadEnd
    \/ Finish
    \/ Spin

Spec == Init /\ [][Next]_vars

\* The session with a thread that keeps running and a peer that keeps
\* answering: every step of the thread that can be taken is taken, a message
\* is read whenever the thread waits for a response, and a peer that is
\* waited on for a Bitfield or an Unchoke sends it in the end, after whatever
\* other messages.
Fairness ==
    /\ WF_vars(HandshakeRecv)
    /\ WF_vars(ForNext)
    /\ WF_vars(SendInterested)
    /\ WF_vars(DownloadStart)
    /\ WF_vars(SendRequest)
    /\ WF_vars(AwaitResponse)
    /\ WF_vars(DownloadEnd)
    /\ WF_vars(Finish)
    /\ SF_vars(RecvWaitingForBitField(Simple(Bitfield)))
    /\ SF_vars(RecvWaitingForUnchoke(Simple(Unchoke)))

LiveSpec == Init /\ [][Next]_vars /\ Fairness

----------------------------------------------------------------------------
(* The codec, Torrent::open, info_hash and get_peers applied to an input *)

NoTorrent == [length |-> 0, piece_length |-> 0, num_pieces |-> 0,
              info_hash |-> LocalInfoHash]

\* one of the inputs, nothing computed yet, no session in use
CodecInit ==
    /\ input \in Inputs
    /\ cstage = "input"
    /\ decoded = NoValue
    /\ encoded = <<>>
    /\ opened = NoValue
    /\ hashed = <<>>
    /\ peers = NoValue
    /\ torrent = NoTorrent
    /\ Created

\* Bencode::new(bytes).decode()
DecodeInput ==
    /\ cstage = "input"
    /\ decoded' = Decode(input.bytes)
    /\ cstage' = "decoded"
    /\ UNCHANGED <<session, input, encoded, opened, hashed, peers>>

\* Bencode::encode(&value) of the decoded value
Reencode ==
    /\ cstage = "decoded" /\ decoded.t # "Panic"
    /\ encoded' = Encode(decoded)
    /\ cstage' = "encoded"
    /\ UNCHANGED <<session, input, decoded, opened, hashed, peers>>

\* Torrent::open
OpenTorrent ==
    /\ cstage = "input"
    /\ opened' = TorrentOpen(input.bytes)
    /\ cstage' = "opened"
    /\ UNCHANGED <<session, input, decoded, encoded, hashed, peers>>

\* torrent.info_hash()
InfoHash ==
    /\ cstage = "opened" /\ opened.t = "Torrent"
    /\ hashed' = InfoHashInput(opened.v.info)
    /\ cstage' = "hashed"
    /\ UNCHANGED <<session, input, decoded, encoded, opened, peers>>

\* torrent.get_peers() from the body of the tracker response on
GetPeers ==
    /\ cstage = "input"
    /\ peers' = GetPeersOf(input.bytes)
    /\ cstage' = "peers"
    /\ UNCHANGED <<session, input, decoded, encoded, opened, hashed>>

\* handshake.as_bytes() of the Handshake value of the input
BuildHandshake ==
    /\ cstage = "input" /\ input.kind = "handshake"
    /\ encoded' = AsBytes(HandshakeValue(input.keys[1], input.keys[2],
                                         input.keys[3], input.keys[4]))
    /\ cstage' = "built"
    /\ UNCHANGED <<session, input, decoded, opened, hashed, peers>>

\* Handshake::from_bytes(bytes) of the bytes built, when they fill [u8; 68]
ParseHandshake ==
    /\ cstage = "built" /\ Len(encoded) = HandshakeLen
    /\ decoded' = FromBytes(encoded)
    /\ cstage' = "parsed"
    /\ UNCHANGED <<session, input, encoded, opened, hashed, peers>>

CodecNext ==
    \/ BuildHandshake
    \/ ParseHandshake
    \/ DecodeInput
    \/ Reencode
    \/ OpenTorrent
    \/ InfoHash
    \/ GetPeers

CodecSpec == CodecInit /\ [][CodecNext]_vars

TypeOK ==
    /\ state \in States
    /\ pc \in {"idle", "hs_read", "for", "loop", "while", "await", "panicked"}
    /\ outstanding \in 0..1

----------------------------------------------------------------------------
(* Properties *)

Requests == SelectSeq(sent, LAMBDA f : f.type = "Request")

RECURSIVE SumLength(_)
SumLength(fs) == IF fs = <<>> THEN 0 ELSE fs[1].length + SumLength(Tail(fs))

RECURSIVE SumLen(_)
SumLen(cs) == IF cs = <<>> THEN 0 ELSE cs[1].len + SumLen(Tail(cs))

CeilDiv(x, d) == (x + d - 1) \div d

\* info.pieces has one digest per piece of the content
WellFormed == torrent.num_pieces = CeilDiv(torrent.length, torrent.piece_length)

\* piece_size_i = min(P, L - i*P)
PieceSize(i) == Min(torrent.piece_length, torrent.length - i * torrent.piece_length)

\* C1: a Request is written to the socket only when no earlier Request is
\* still waiting for its Piece message, so at most one is outstanding
C1_OneRequestOutstanding ==
    [][(Len(sent') > Len(sent) /\ sent'[Len(sent')].type = "Request")
          => (outstanding = 0 /\ outstanding' = 1)]_vars

\* C1: the second Request of a piece is outstanding, the first one answered
C1_Witness == pc = "await" /\ Len(piece_reqs) >= 2 /\ Len(file) >= 1

\* C2: Interested is written only after a Bitfield was read, and a Request
\* only after an Unchoke was read that followed the writing of Interested
C2_BitfieldThenUnchoke ==
    /\ InterestedSent => bitfield_received
    /\ Requests # <<>> => (InterestedSent /\ unchoked)

\* C2: a Request has been written, after a Bitfield and then an Unchoke were read
C2_Witness == pc = "await" /\ Requests # <<>> /\ bitfield_received /\ unchoked

\* C3: the Requests written for piece i are, in order, those of the blocks
\* k = 0, 1, ... with index i, begin k*16384 and length
\* min(16384, piece_size_i - k*16384), and when the piece is finished there
\* are exactly ceil(piece_size_i / 16384) of them
C3_RequestsOfPiece ==
    (pc \in {"loop", "while", "await"}
       /\ piece_index * torrent.piece_length <= torrent.length)
    => /\ Len(piece_reqs) <= CeilDiv(PieceSize(piece_index), BlockSize)
       /\ \A k \in 1..Len(piece_reqs) :
             piece_reqs[k] =
                 Frame("Request", piece_index, (k - 1) * BlockSize,
                       Min(BlockSize, PieceSize(piece_index) - (k - 1) * BlockSize), "")
       /\ state = "Finish"
             => Len(piece_reqs) = CeilDiv(PieceSize(piece_index), BlockSize)

\* C3: a piece other than the first is finished after two Requests, the
\* second one shorter than a block
C3_Witness ==
    /\ state = "Finish" /\ piece_index >= 1 /\ Len(piece_reqs) = 2
    /\ piece_reqs[2].length < BlockSize

\* C4: no Request is longer than 16384 bytes, and when download_all_pieces
\* has returned on a torrent with ceil(L/P) pieces the lengths of its
\* Requests sum to L
C4_RequestLengthsSumToLength ==
    /\ \A k \in 1..Len(Requests) : Requests[k].length <= BlockSize
    /\ (pc = "idle" /\ call = "download_all_pieces" /\ WellFormed)
          => SumLength(Requests) = torrent.length

\* C4: download_all_pieces has returned on a torrent of several pieces whose
\* last piece is shorter than the others and not a whole number of blocks
C4_Witness ==
    /\ pc = "idle" /\ call = "download_all_pieces" /\ WellFormed
    /\ torrent.num_pieces >= 2
    /\ torrent.length % torrent.piece_length # 0
    /\ torrent.length % BlockSize # 0
    /\ Len(Requests) >= 3

\* the chunks written to the file by the download of piece i in call c
ChunksOf(c, i) == SelectSeq(file, LAMBDA ch : ch.call = c /\ ch.piece = i)

\* the assembled bytes of piece i are the bytes of the piece, which is what
\* equal SHA-1 digests stand for: the chunks are blocks of piece i, each the
\* content at its begin, laid end to end from 0 to piece_size_i
AssembledIsPiece(c, i) ==
    LET chunks == ChunksOf(c, i)
    IN  /\ SumLen(chunks) = PieceSize(i)
        /\ \A k \in 1..Len(chunks) :
              /\ chunks[k].ok
              /\ chunks[k].index = i
              /\ chunks[k].begin = SumLen(SubSeq(chunks, 1, k - 1))

\* C5: every piece whose download_piece returned in the current call has
\* assembled bytes whose digest is info.pieces[i]; a piece with another
\* digest makes the download fail instead
C5_WrongDigestNeverAccepted ==
    \A k \in 1..Len(completed) :
        (completed[k][1] = calls
           /\ completed[k][2] * torrent.piece_length <= torrent.length)
            => AssembledIsPiece(completed[k][1], completed[k][2])

\* C6: every chunk in the output file comes from a Piece message whose index
\* and begin are those of the Request it answered
C6_MismatchedBlockNeverWritten ==
    \A k \in 1..Len(file) :
        file[k].index = file[k].piece /\ file[k].begin = file[k].req_begin

\* C7: after a Choke has been read the session has not aborted and waits,
\* in a state that writes no Request before an Unchoke is read
C7_ChokePausesRequests ==
    last_msg.id = Choke
        => (pc # "panicked" /\ state \in {"WaitingForBitField", "WaitingForUnchoke"})

\* Have, NotInterested, Cancel, a keep-alive, and a Bitfield after the first
IsNonFlow(m, seen_bitfield) ==
    \/ m = KeepAlive
    \/ m.id \in {Have, NotInterested, Cancel}
    \/ m.id = Bitfield /\ seen_bitfield

\* C8: reading a non-flow message changes no session state, writes nothing
\* and does not abort the session
C8_NonFlowMessagesIgnored ==
    [][IsNonFlow(last_msg', bitfield_received)
          => (state' = state /\ sent' = sent /\ pc' # "panicked")]_vars

\* C9: when the peer's handshake carries another info_hash the session stays
\* in Connected and neither Interested nor a Request is ever written
C9_InfoHashMismatchRejected ==
    (peer_handshake # NoHandshake /\ peer_handshake.info_hash # torrent.info_hash)
        => /\ state = "Connected"
           /\ \A k \in 1..Len(sent) : sent[k].type \notin {"Interested", "Request"}

\* C10: when download_all_pieces has returned, download_piece has run for
\* the pieces 0, 1, ..., num_pieces-1 in this order, the file holds L bytes
\* and every chunk lies at the offset index * piece_length + begin of its
\* content
C10_FileHoldsContent ==
    (pc = "idle" /\ call = "download_all_pieces" /\ WellFormed)
        => /\ completed = [k \in 1..torrent.num_pieces |-> <<calls, k - 1>>]
           /\ SumLen(file) = torrent.length
           /\ \A k \in 1..Len(file) :
                 /\ file[k].ok
                 /\ SumLen(SubSeq(file, 1, k - 1))
                       = file[k].index * torrent.piece_length + file[k].begin

\* C11: once a piece has completed the session stays in the Download/Finish
\* states, so a later download_piece goes straight to its Requests, and
\* Interested is written at most once in a session
C11_ReadyAfterPiece ==
    /\ Cardinality({k \in 1..Len(sent) : sent[k].type = "Interested"}) <= 1
    /\ completed # <<>> => state \in {"Download", "Finish"}

\* C11: a second download_piece call on the session has written a Request
C11_Witness ==
    /\ completed # <<>> /\ call = "download_piece" /\ calls = Len(completed) + 2
    /\ pc = "await" /\ Len(piece_reqs) = 1

----------------------------------------------------------------------------
(* Properties of the codec, the metainfo projection and the peers list *)

\* every generated input is canonical bencode except the integer texts and
\* the dictionaries that say otherwise
CanonicalBencode(in) == in.kind \in {"metainfo", "tracker"} \/ in.canonical

\* an integer text with a leading zero, the negative zero included
LeadingZero(text) ==
    LET digits == IF text[1] = Asc("-") THEN Tail(text) ELSE text
    IN  digits # <<>> /\ digits[1] = Asc("0") /\ text # <<Asc("0")>>

\* C12: for a valid metainfo file the bytes info_hash gives to SHA-1 are the
\* bytes of the info dictionary in the file, extra keys included
C12_InfoHashOfOriginalBytes ==
    (input.kind = "metainfo" /\ input.canonical /\ cstage = "hashed")
        => hashed = input.part

\* C13: a canonical bencoded byte string decodes, and encoding the decoded
\* value gives the byte string back
C13_EncodeOfDecode ==
    CanonicalBencode(input) =>
        /\ cstage = "decoded" => decoded.t # "Panic"
        /\ cstage = "encoded" => encoded = input.bytes

\* C14: a dictionary with two different keys decodes in either order of its
\* entries, and its re-encoding is the dictionary with the smaller key first
C14_EntryOrderIrrelevant ==
    (input.kind = "dict" /\ input.keys[1] # input.keys[2]) =>
        /\ cstage = "decoded" => decoded.t = "Dictionary"
        /\ cstage = "encoded" => encoded = input.part

\* C15: decoding a dictionary in which a key occurs twice fails
C15_DuplicateKeyFails ==
    (input.kind = "dict" /\ input.keys[1] = input.keys[2] /\ cstage = "decoded")
        => decoded.t = "Panic"

\* C16: i0e decodes to the Number 0; an integer with a leading zero or the
\* negative zero does not decode to a Number
C16_IntegerForms ==
    (input.kind = "int" /\ cstage = "decoded") =>
        /\ input.part = <<Asc("0")>> => (decoded.t = "Number" /\ decoded.v = 0)
        /\ LeadingZero(input.part) => decoded.t # "Number"

\* C17: Torrent::open accepts every pieces byte string of a valid length and
\* get_peers every peers byte string, whatever the bytes are
C17_RawBytesAccepted ==
    /\ (input.kind = "metainfo" /\ input.canonical /\ cstage = "opened")
          => opened.t = "Torrent"
    /\ (input.kind = "tracker" /\ cstage = "peers") => peers.t = "Peers"

\* C18: no Torrent is constructed when length or piece length is not positive
\* or the length of pieces is zero or not a multiple of 20
C18_SchemaErrors ==
    (input.kind = "metainfo" /\ ~input.canonical /\ cstage = "opened")
        => opened.t = "Panic"

\* C19: every Torrent that Torrent::open constructs from a file that meets
\* the schema has as many digests as ceil(length / piece_length)
C19_PieceCount ==
    (input.kind = "metainfo" /\ input.canonical /\ cstage = "opened"
       /\ opened.t = "Torrent") =>
        /\ opened.v.info.piece_length > 0
        /\ Len(opened.v.info.pieces)
              = CeilDiv(opened.v.info.length, opened.v.info.piece_length)

\* C20: the list get_peers returns for a blob of 6n bytes has n entries in
\* blob order, each with the IPv4 address and the big-endian port of its chunk
C20_Endpoints ==
    (input.kind = "tracker" /\ cstage = "peers" /\ peers.t = "Peers") =>
        /\ Len(peers.v) = Len(input.part) \div PeerLen
        /\ \A j \in 1..Len(peers.v) :
              LET at == (j - 1) * PeerLen
              IN  /\ DOMAIN peers.v[j] = {"ip", "port"}
                  /\ peers.v[j].ip = SubSeq(input.part, at + 1, at + 4)
                  /\ peers.v[j].port
                        = input.part[at + 5] * 256 + input.part[at + 6]

\* C21: for a handshake value with pstr 'BitTorrent protocol' as_bytes gives
\* 68 bytes, and from_bytes of them gives back pstr, reserved, info_hash and
\* peer_id
C21_HandshakeRoundTrip ==
    (input.kind = "handshake" /\ input.canonical) =>
        /\ cstage = "built" => Len(encoded) = HandshakeLen
        /\ cstage = "parsed" =>
              /\ decoded.t = "Handshake"
              /\ decoded.v = HandshakeValue(input.keys[1], input.keys[2],
                                            input.keys[3], input.keys[4])

\* C21: a handshake with reserved bits set and info_hash # peer_id parsed back
C21_Witness ==
    /\ input.kind = "handshake" /\ input.canonical /\ cstage = "parsed"
    /\ input.keys[2] # Repeat(Asc("x00"), 8)
    /\ input.keys[3] # input.keys[4]
    /\ decoded.t = "Handshake" /\ decoded.v.peer_id = input.keys[4]

\* the Request r asks for the bytes up to the end of the content
FinalBlock(r) ==
    r.index * torrent.piece_length + r.begin + r.length = torrent.length

\* every Request but the final block of the final piece is as long as each
\* Request before it
SameAsPrior ==
    \A k \in 1..Len(Requests) :
        ~FinalBlock(Requests[k])
            => \A j \in 1..(k - 1) : Requests[j].length = Requests[k].length

\* download_all_pieces is running or has returned: it did not abort at its
\* state check, where nothing is read, so every Request of the session is one
\* of this call
PastStateCheck ==
    call = "download_all_pieces" /\ ~(pc = "panicked" /\ last_msg = NoMsg)

\* C22: in a download_all_pieces only the final block of the final piece is
\* shorter than the blocks before it
C22_OnlyFinalBlockShorter ==
    (PastStateCheck /\ WellFormed) => SameAsPrior

\* C22, amended: in a download_all_pieces every block lies in its piece and
\* every block but the last one of its piece has 16384 bytes, so the last
\* block of each piece may be shorter; when piece_length is a multiple of
\* 16384 only the final block of the final piece is
C22_LastBlockOfPieceShorter ==
    (PastStateCheck /\ WellFormed) =>
        /\ \A k \in 1..Len(Requests) :
              LET r == Requests[k]
              IN  /\ r.length >= 1
                  /\ r.begin + r.length <= PieceSize(r.index)
                  /\ r.begin + r.length < PieceSize(r.index) => r.length = BlockSize
        /\ torrent.piece_length % BlockSize = 0 => SameAsPrior

\* C22: download_all_pieces has returned, and the last block of a piece that
\* is not the final one was requested with fewer than 16384 bytes
C22_Witness ==
    /\ pc = "idle" /\ call = "download_all_pieces" /\ WellFormed
    /\ \E k \in 1..Len(Requests) :
          /\ Requests[k].index < torrent.num_pieces - 1
          /\ Requests[k].length < BlockSize
          /\ Requests[k].begin > 0

\* the Value the grammar gives to the generated input in, is it v
Denotes(in, v) ==
    CASE in.kind = "int" -> v.t = "Number" /\ IntToString(v.v) = in.part
      [] in.kind = "string" -> v.t \in {"String", "Blob"} /\ v.v = in.part
      [] in.kind = "list" ->
            /\ v.t = "List" /\ Len(v.v) = 3
            /\ v.v[1].t \in {"String", "Blob"} /\ v.v[1].v = in.part
            /\ v.v[2].t = "Number" /\ v.v[2].v = 7
            /\ v.v[3].t = "List" /\ v.v[3].v = <<>>
      [] in.kind = "dict" ->
            /\ v.t = "Dictionary" /\ DOMAIN v.v = {in.keys[1], in.keys[2]}
            /\ v.v[in.keys[1]].t = "Number" /\ v.v[in.keys[1]].v = 1
            /\ v.v[in.keys[2]].t = "Number" /\ v.v[in.keys[2]].v = 2

\* the generated input is well formed: a canonical integer, a string, a list,
\* or a dictionary with two different keys
WellFormedInput(in) ==
    \/ in.kind = "int" /\ in.canonical
    \/ in.kind \in {"string", "list"}
    \/ in.kind = "dict" /\ in.keys[1] # in.keys[2]

\* C23: decode maps a well-formed input to the Value the grammar denotes:
\* the bytes of a string, the number of an integer, the elements of a list in
\* order, the entries of a dictionary under their raw keys
C23_DecodeDenotation ==
    (WellFormedInput(input) /\ cstage = "decoded") => Denotes(input, decoded)

HandshakeFrames == Cardinality({k \in 1..Len(sent) : sent[k].type = "Handshake"})

\* C24: handshake() called in a state other than Connected and
\* download_all_pieces called in a state other than Handshake abort without
\* writing to the socket, nothing is written after an abort, a handshake
\* frame is written in state Connected only, and at most once in a session
C24_CallsGuarded ==
    /\ [](HandshakeFrames <= 1)
    /\ [][(calls' = calls + 1 /\ call' = "handshake" /\ state # "Connected")
             => (pc' = "panicked" /\ sent' = sent)]_vars
    /\ [][(calls' = calls + 1 /\ call' = "download_all_pieces"
              /\ state # "Handshake")
             => (pc' = "panicked" /\ sent' = sent)]_vars
    /\ [][(Len(sent') > Len(sent) /\ sent'[Len(sent')].type = "Handshake")
             => state = "Connected"]_vars
    /\ [][pc = "panicked" => (pc' = "panicked" /\ sent' = sent)]_vars

\* C24: after a handshake and the download of a piece, a second call of
\* handshake() has aborted with one handshake frame written
C24_Witness ==
    /\ pc = "panicked" /\ call = "handshake" /\ calls = 3
    /\ completed # <<>> /\ HandshakeFrames = 1

\* download_all_pieces has returned with every block of every piece requested
AllRequested ==
    /\ pc = "idle" /\ call = "download_all_pieces"
    /\ Len(completed) = torrent.num_pieces
    /\ SumLength(Requests) = torrent.length

\* the thread stopped on the response to a Request: the peer answered with
\* something that is not a Piece message carrying a block
NoPieceForRequest == pc = "panicked" /\ state = "Download"

\* C25: a download_all_pieces that has passed its state check returns with
\* every block requested, unless the peer answers a Request with something
\* other than a Piece message
C25_DownloadAllPiecesReturns ==
    (call = "download_all_pieces" /\ pc = "for" /\ WellFormed)
        ~> (AllRequested \/ NoPieceForRequest)

\* C26: a download_piece that has entered its loop returns or aborts
C26_DownloadPieceEnds ==
    (call = "download_piece" /\ pc = "loop") ~> pc \in {"idle", "panicked"}

====
